---- MODULE Spec2Model ----
(***************************************************************************)
(* DBArray (wanji/dbarray): a 2-D numeric array stored row by row in a     *)
(* key-value engine (LevelDB or LMDB), with shape / dtype metadata and     *)
(* typed attributes kept in the same key space.                            *)
(*                                                                         *)
(* Byte strings (Python 2 `str`) are sequences of byte values 0..255.      *)
(* Python values that cross an interface are tagged records:               *)
(*   [t |-> "none"], [t |-> "str", v |-> bytes], [t |-> "int", v |-> n],   *)
(*   [t |-> "float"], [t |-> "type", v |-> name], [t |-> "dtype", ...],    *)
(*   [t |-> "ndarray", dtype |-> name, data |-> bytes],                    *)
(*   [t |-> "exc", v |-> exception name]      (a raised exception).        *)
(* One database path is modelled; `store[k]` is what engine k holds there. *)
(***************************************************************************)
EXTENDS Integers, Sequences, FiniteSets, TLC

VARIABLES
    exists,     \* os.path.exists(dbpath)
    files,      \* names of the files in the directory dbpath
    store,      \* engine kind -> (key -> value) kept by that engine at dbpath
    DB_MAP,     \* StorageLMDB.DB_MAP: the paths with a cached LMDB environment
    dba,        \* the DBArray object: state, _storage kind, nrows, ncols, dtype
    last,       \* the last operation performed, its arguments and its outcome
    declared,   \* history: arguments of the last successful set_shape / set_dtype
    attrlog,    \* history: attribute name -> value last passed to set_db_attr
    hl,         \* instance -> the engine handle its _storage holds in this process
    wr,         \* the __setitem__ call in progress: its position in set_rows
    rd,         \* the storage get call in progress
    slot        \* the LMDB reader slot of the thread: "ok", or "bad" (stale)

vars == <<exists, files, store, DB_MAP, dba, last, declared, attrlog, hl, wr, rd, slot>>

\* ------------------------------------------------------------------ bounds
MaxRows == 2    \* set_shape is called with 0..MaxRows rows
MaxCols == 2    \* set_shape is called with 1..MaxCols columns
MaxRid == 1     \* rows are addressed with ids 0..MaxRid

\* ------------------------------------------------------------ Python values
PyNone == [t |-> "none"]
PyStr(b) == [t |-> "str", v |-> b]
PyInt(n) == [t |-> "int", v |-> n]
PyFloat == [t |-> "float"]
PyType(n) == [t |-> "type", v |-> n]
PyDtype(n) == [t |-> "dtype", v |-> n]
PyArr(dt, bytes) == [t |-> "ndarray", dtype |-> dt, data |-> bytes]
Raise(e) == [t |-> "exc", v |-> e]

\* ASCII text of the literals the program uses
S_nrows == <<110, 114, 111, 119, 115>>
S_ncols == <<110, 99, 111, 108, 115>>
S_dtype == <<100, 116, 121, 112, 101>>
S_None == <<78, 111, 110, 101>>
S_int8 == <<105, 110, 116, 56>>
S_int16 == <<105, 110, 116, 49, 54>>
S_float64 == <<102, 108, 111, 97, 116, 54, 52>>
S__dtype == <<95, 100, 116, 121, 112, 101>>

TSTR_NDARRAY == <<110, 100, 97>>
TSTR_INT == <<105, 110, 116>>
TSTR_STR == <<115, 116, 114>>

\* ------------------------------------------------------------------- numpy
\* The element types of the model: numpy's int8 and int16, float64 (numpy's
\* default when no dtype is given) and "S" (np.dtype(str), zero-width string).
DTYPE_NAMES == {"int8", "int16", "float64"}

itemsize(dt) ==
    CASE dt = "int8" -> 1
      [] dt = "int16" -> 2
      [] dt = "float64" -> 8
      [] OTHER -> 0

\* numpy.dtype.name / type.__name__ as text
NameText(dt) ==
    CASE dt = "int8" -> S_int8
      [] dt = "int16" -> S_int16
      [] dt = "float64" -> S_float64
      [] OTHER -> <<>>

\* np.dtype(x): a name is looked up, None gives the default float64, the
\* Python type `str` gives the string dtype; anything else is not understood.
np_dtype(x) ==
    CASE x.t = "none" -> PyDtype("float64")
      [] x.t = "type" -> IF x.v = "str" THEN PyDtype("S") ELSE PyDtype(x.v)
      [] x.t = "dtype" -> x
      [] x.t = "str" ->
            IF \E n \in DTYPE_NAMES : NameText(n) = x.v
            THEN PyDtype(CHOOSE n \in DTYPE_NAMES : NameText(n) = x.v)
            ELSE Raise("TypeError")
      [] OTHER -> Raise("TypeError")

\* --------------------------------------------------------- struct pack/unpack
RECURSIVE Byte(_, _)
Byte(n, i) == IF i = 1 THEN n % 256 ELSE Byte(n \div 256, i - 1)

\* (mutant) a row-key encoding that loses the lowest bit of the number
pack_halved(n) == [i \in 1..8 |-> Byte(n \div 2, i)]

\* pack(PACK_NUM_TYPE, n): 8 bytes, two's complement, least significant first
pack(n) == [i \in 1..8 |-> Byte(n, i)]

RECURSIVE UVal(_, _)
UVal(b, i) == IF i > Len(b) THEN 0 ELSE b[i] + 256 * UVal(b, i + 1)

\* unpack(PACK_NUM_TYPE, x)[0]; anything but an 8-byte string is an error
unpack(x) ==
    IF x.t # "str" \/ Len(x.v) # 8 THEN Raise("struct.error")
    ELSE IF x.v[8] >= 128
         THEN PyInt(-(1 + UVal([i \in 1..8 |-> 255 - x.v[i]], 1)))
         ELSE PyInt(UVal(x.v, 1))

\* ----------------------------------------------------------------- storage
DBTYPE == <<"leveldb", "lmdb">>
KINDS == {DBTYPE[i] : i \in 1..Len(DBTYPE)}
DEFAULT_DTYPE == "lmdb"

EmptyDB == [k \in {} |-> <<>>]

LevelDBFiles == {"CURRENT", "LOCK", "LOG", "MANIFEST-000002"}
LMDBFiles == {"data.mdb", "lock.mdb"}

\* C_Storage.is_valid(dbpath): a marker file in os.listdir(dbpath)
is_valid(kind, fs) ==
    IF kind = "leveldb" THEN \E item \in fs : item = "CURRENT"
    ELSE \E item \in fs : item \in {"data.mdb", "lock.mdb"}

\* C_Storage(dbpath): the files and the handle cache after the constructor
StorageInit(kind, fs, dbmap) ==
    IF kind = "leveldb"
    THEN [files |-> fs \cup LevelDBFiles, DB_MAP |-> dbmap]
    ELSE IF "dbpath" \notin dbmap
         THEN [files |-> fs \cup LMDBFiles, DB_MAP |-> dbmap \cup {"dbpath"}]
         ELSE [files |-> fs, DB_MAP |-> dbmap]

\* The instances of one process on the path: the array object `dba` and a
\* second array object `peer`.  An engine handle is the LMDB environment
\* cached in DB_MAP, or the leveldb.LevelDB object an instance keeps in hl_db.
Instances == {"dba", "peer"}
NoHandle == [kind |-> "none"]
LMDBEnv == [kind |-> "lmdb", owner |-> "DB_MAP"]
LevelDBObj(inst) == [kind |-> "leveldb", owner |-> inst]

\* The handle instance inst gets from C_Storage(dbpath), or the exception.
\* StorageLMDB takes the environment cached under the path.  StorageLevelDB
\* calls leveldb.LevelDB(dbpath) every time: while another LevelDB object of
\* the process is open on the path the engine either refuses the lock
\* (LevelDBError) or, built without the in-process lock table, opens a second
\* object on the same files.
StorageHandle(kind, inst, h) ==
    IF kind = "lmdb" THEN {[exc |-> "none", hl |-> LMDBEnv]}
    ELSE IF \E j \in Instances \ {inst} : h[j].kind = "leveldb"
         THEN {[exc |-> "LevelDBError", hl |-> NoHandle],
               [exc |-> "none", hl |-> LevelDBObj(inst)]}
         ELSE {[exc |-> "none", hl |-> LevelDBObj(inst)]}

\* storage.get(key): LevelDB raises KeyError for an absent key, LMDB's
\* txt.get returns None
StorageGet(kind, db, key) ==
    IF key \in DOMAIN db THEN PyStr(db[key])
    ELSE IF kind = "leveldb" THEN Raise("KeyError") ELSE PyNone

\* storage.set(key, val): both engines accept only a byte string as value
StorageSet(kind, db, key, val) ==
    IF val.t # "str" THEN [db |-> db, exc |-> "TypeError"]
    ELSE [db |-> [k \in DOMAIN db \cup {key} |-> IF k = key THEN val.v ELSE db[k]],
          exc |-> "none"]

\* ------------------------------------------------------------ dtype helpers
_get_dtype_name(dtype) ==
    CASE dtype.t = "none" -> PyStr(S_None)
      [] dtype.t = "type" -> PyStr(NameText(dtype.v))
      [] dtype.t = "dtype" -> PyStr(NameText(dtype.v))
      [] dtype.t = "str" -> PyType("str")
      [] OTHER -> Raise("Exception")

_gen_dtype(dtype_str) ==
    IF dtype_str.t = "str" /\ dtype_str.v = S_None THEN PyNone
    ELSE np_dtype(dtype_str)

\* self.dtype as kept in the object: "None" or the dtype's name
DtypeField(d) == IF d.t = "none" THEN "None" ELSE d.v

\* ------------------------------------------------------------------ _loadinfo
\* (mutant) _loadinfo reading the column count from "nrows"
_loadinfo_samekey(kind, db) ==
    LET g1 == StorageGet(kind, db, S_nrows)
        n1 == IF g1.t = "exc" THEN g1 ELSE unpack(g1)
        g3 == StorageGet(kind, db, S_dtype)
        d3 == IF g3.t = "exc" THEN g3 ELSE _gen_dtype(g3)
    IN  IF n1.t = "exc" THEN [out |-> n1.v]
        ELSE IF d3.t = "exc" THEN [out |-> d3.v]
        ELSE [out |-> "ok", nrows |-> n1.v, ncols |-> n1.v, dtype |-> DtypeField(d3)]

_loadinfo(kind, db) ==
    LET g1 == StorageGet(kind, db, S_nrows)
        n1 == IF g1.t = "exc" THEN g1 ELSE unpack(g1)
        g2 == StorageGet(kind, db, S_ncols)
        n2 == IF g2.t = "exc" THEN g2 ELSE unpack(g2)
        g3 == StorageGet(kind, db, S_dtype)
        d3 == IF g3.t = "exc" THEN g3 ELSE _gen_dtype(g3)
    IN  IF n1.t = "exc" THEN [out |-> n1.v]
        ELSE IF n2.t = "exc" THEN [out |-> n2.v]
        ELSE IF d3.t = "exc" THEN [out |-> d3.v]
        ELSE [out |-> "ok", nrows |-> n1.v, ncols |-> n2.v, dtype |-> DtypeField(d3)]

\* ----------------------------------------------------- set_shape / set_dtype
\* the engine's contents after set_shape(shape)
set_shape_db(kind, db, shape) ==
    LET s1 == StorageSet(kind, db, S_nrows, PyStr(pack(shape[1])))
    IN  StorageSet(kind, s1.db, S_ncols, PyStr(pack(shape[2]))).db

\* set_dtype(dtype): the new self.dtype, the engine's contents and the outcome
set_dtype_core(kind, db, olddtype, dtype) ==
    LET dtype_str == _get_dtype_name(dtype)
        gen == IF dtype_str.t = "exc" THEN dtype_str ELSE _gen_dtype(dtype_str)
    IN  IF gen.t = "exc" THEN [dtype |-> olddtype, db |-> db, out |-> gen.v]
        ELSE LET s == StorageSet(kind, db, S_dtype, dtype_str)
             IN  [dtype |-> DtypeField(gen), db |-> s.db,
                  out |-> IF s.exc = "none" THEN "ok" ELSE s.exc]

\* ------------------------------------------------------------------- __init__
\* (mutant) __init__ without the probing fallback: the requested kind is used
resolve_noprobe(dbtype, is_exists, fs) ==
    [C_Storage |-> dbtype, log |-> "none", used |-> dbtype]

\* backend-kind resolution of __init__: the storage class used and what is logged
resolve(dbtype, is_exists, fs) ==
    IF is_exists /\ ~is_valid(dbtype, fs)
    THEN LET others == SelectSeq(DBTYPE, LAMBDA k : k # dbtype)
             hit_cnt == Cardinality({i \in 1..Len(others) : is_valid(others[i], fs)})
             othertype == others[Len(others)]
         IN  [C_Storage |-> othertype,
              log |-> IF hit_cnt = 0 THEN "fatal: DB type is unknown"
                      ELSE IF hit_cnt > 1 THEN "TypeError"
                      ELSE "warning: Using other instead of requested",
              used |-> othertype]
    ELSE [C_Storage |-> dbtype, log |-> "none", used |-> dbtype]

ClosedObj == [state |-> "closed", kind |-> "none", nrows |-> -1, ncols |-> -1, dtype |-> "None"]

NoDecl == [shape |-> <<>>, dtype |-> "unset"]

Open(dbtype) ==
    /\ UNCHANGED <<wr, rd, slot>>
    /\ dba.state = "closed"
    /\ LET is_exists == exists
           res == resolve(dbtype, is_exists, files)
           kind == res.C_Storage
           st == StorageInit(kind, files, DB_MAP)
           rec == [op |-> "open", dbtype |-> dbtype, existed |-> is_exists,
                   valid |-> {k \in KINDS : is_valid(k, files)},
                   files0 |-> files, store0 |-> store, dbmap0 |-> DB_MAP,
                   used |-> kind, log |-> res.log]
       IN  IF res.log = "TypeError"
           THEN /\ last' = rec @@ [out |-> "TypeError"]
                /\ UNCHANGED <<exists, files, store, DB_MAP, dba, declared, attrlog, hl>>
           ELSE \E eo \in StorageHandle(kind, "dba", hl) :
                IF eo.exc # "none"
                THEN /\ last' = rec @@ [out |-> eo.exc]
                     /\ UNCHANGED <<exists, files, store, DB_MAP, dba, declared, attrlog, hl>>
                ELSE
                /\ exists' = TRUE
                /\ files' = st.files
                /\ DB_MAP' = st.DB_MAP
                /\ IF is_exists
                   THEN LET info == _loadinfo(kind, store[kind])
                        IN  /\ store' = store
                            /\ last' = rec @@ [out |-> info.out]
                            /\ dba' = IF info.out = "ok"
                                      THEN [state |-> "open", kind |-> kind,
                                            nrows |-> info.nrows, ncols |-> info.ncols,
                                            dtype |-> info.dtype]
                                      ELSE ClosedObj
                            /\ declared' = declared
                   ELSE LET db1 == set_shape_db(kind, store[kind], <<-1, -1>>)
                            sd == set_dtype_core(kind, db1, "None", PyNone)
                        IN  /\ store' = [store EXCEPT ![kind] = sd.db]
                            /\ last' = rec @@ [out |-> sd.out]
                            /\ dba' = [state |-> "open", kind |-> kind,
                                       nrows |-> -1, ncols |-> -1, dtype |-> sd.dtype]
                            /\ declared' = [shape |-> <<-1, -1>>, dtype |-> "None"]
                /\ attrlog' = attrlog
                /\ hl' = [hl EXCEPT !.dba = IF dba'.state = "open" THEN eo.hl ELSE NoHandle]

\* the process is killed inside __init__ of a new store, after set_shape and
\* before set_dtype
OpenInterrupted(dbtype) ==
    /\ UNCHANGED <<wr, rd, slot>>
    /\ dba.state = "closed"
    /\ ~exists
    /\ LET st == StorageInit(dbtype, files, DB_MAP)
       IN  /\ exists' = TRUE
           /\ files' = st.files
           /\ store' = [store EXCEPT ![dbtype] = set_shape_db(dbtype, store[dbtype], <<-1, -1>>)]
    /\ DB_MAP' = {}
    /\ dba' = ClosedObj
    /\ last' = [op |-> "killed", dbtype |-> dbtype, out |-> "killed"]
    /\ declared' = [shape |-> <<-1, -1>>, dtype |-> "unset"]
    /\ attrlog' = attrlog
    /\ hl' = [i \in Instances |-> NoHandle]

\* `del dba`: the object goes away and with it its LevelDB object
\* (StorageLevelDB.__del__); the LMDB environment stays cached
Close ==
    /\ UNCHANGED <<wr, rd, slot>>
    /\ dba.state = "open"
    /\ dba' = ClosedObj
    /\ last' = [op |-> "close", out |-> "ok"]
    /\ hl' = [hl EXCEPT !.dba = NoHandle]
    /\ UNCHANGED <<exists, files, store, DB_MAP, declared, attrlog>>

\* A second array object is constructed on the path while the first is
\* alive: peer = DBArray(dbpath, dbtype).  Its constructor resolves the kind,
\* builds the storage object and loads the metadata.
OpenPeer(dbtype) ==
    /\ UNCHANGED <<wr, rd, slot>>
    /\ dba.state = "open"
    /\ hl.peer = NoHandle
    /\ LET res == resolve(dbtype, exists, files)
           kind == res.C_Storage
           st == StorageInit(kind, files, DB_MAP)
           rec == [op |-> "open_peer", dbtype |-> dbtype, used |-> kind, hl0 |-> hl]
       IN  IF res.log = "TypeError"
           THEN /\ last' = rec @@ [out |-> "TypeError"]
                /\ UNCHANGED <<files, DB_MAP, hl>>
           ELSE \E eo \in StorageHandle(kind, "peer", hl) :
                IF eo.exc # "none"
                THEN /\ last' = rec @@ [out |-> eo.exc]
                     /\ UNCHANGED <<files, DB_MAP, hl>>
                ELSE LET info == _loadinfo(kind, store[kind])
                     IN  /\ files' = st.files
                         /\ DB_MAP' = st.DB_MAP
                         /\ last' = rec @@ [out |-> info.out]
                         /\ hl' = [hl EXCEPT !.peer = IF info.out = "ok" THEN eo.hl
                                                      ELSE NoHandle]
    /\ UNCHANGED <<exists, store, dba, declared, attrlog>>

\* `del peer`
ClosePeer ==
    /\ UNCHANGED <<wr, rd, slot>>
    /\ hl.peer # NoHandle
    /\ hl' = [hl EXCEPT !.peer = NoHandle]
    /\ last' = [op |-> "close_peer", out |-> "ok"]
    /\ UNCHANGED <<exists, files, store, DB_MAP, dba, declared, attrlog>>

\* -------------------------------------------------------------- set_shape
set_shape(shape) ==
    /\ UNCHANGED <<wr, rd, slot>>
    /\ dba.state = "open"
    /\ dba' = [dba EXCEPT !.nrows = shape[1], !.ncols = shape[2]]
    /\ store' = [store EXCEPT ![dba.kind] = set_shape_db(dba.kind, store[dba.kind], shape)]
    /\ last' = [op |-> "set_shape", shape |-> shape, out |-> "ok"]
    /\ declared' = [declared EXCEPT !.shape = shape]
    /\ UNCHANGED <<exists, files, DB_MAP, attrlog, hl>>

\* the element type a type representation denotes
DenotedType(dtype) == IF dtype.t = "none" THEN "None"
                      ELSE IF dtype.t = "str"
                           THEN (CHOOSE n \in DTYPE_NAMES : NameText(n) = dtype.v)
                           ELSE dtype.v

set_dtype(dtype) ==
    /\ UNCHANGED <<wr, rd, slot>>
    /\ dba.state = "open"
    /\ LET r == set_dtype_core(dba.kind, store[dba.kind], dba.dtype, dtype)
       IN  /\ dba' = [dba EXCEPT !.dtype = r.dtype]
           /\ store' = [store EXCEPT ![dba.kind] = r.db]
           /\ last' = [op |-> "set_dtype", dtype |-> dtype, out |-> r.out]
           /\ declared' = IF r.out = "ok"
                          THEN [declared EXCEPT !.dtype = DenotedType(dtype)]
                          ELSE declared
    /\ UNCHANGED <<exists, files, DB_MAP, attrlog, hl>>

\* ------------------------------------------------------------- row access
\* np.ndarray(n, dtype, buffer): a typed view of the first n elements of the
\* buffer; without a buffer (None) the memory is uninitialized, shown as
\* bytes -1; dtype None means float64
np_ndarray(n, dtype, buffer) ==
    LET dt == IF dtype = "None" THEN "float64" ELSE dtype
        nbytes == n * itemsize(dt)
    IN  IF n < 0 THEN Raise("ValueError")
        ELSE IF buffer.t = "none" THEN PyArr(dt, [i \in 1..nbytes |-> -1])
        ELSE IF Len(buffer.v) < nbytes THEN Raise("TypeError")
        ELSE PyArr(dt, SubSeq(buffer.v, 1, nbytes))

\* get_row(rid) on object obj over engine contents db
get_row(obj, db, rid) ==
    LET g == StorageGet(obj.kind, db, pack(rid))
    IN  IF g.t = "exc" THEN g ELSE np_ndarray(obj.ncols, obj.dtype, g)

\* the rows get_rows copies into resarr, from position i on; the first
\* failing get_row ends the loop
RECURSIVE get_rows_from(_, _, _, _)
get_rows_from(obj, db, v_rid, i) ==
    IF i > Len(v_rid) THEN [t |-> "rows", v |-> <<>>]
    ELSE LET r == get_row(obj, db, v_rid[i])
         IN  IF r.t = "exc" THEN r
             ELSE LET rest == get_rows_from(obj, db, v_rid, i + 1)
                  IN  IF rest.t = "exc" THEN rest
                      ELSE [t |-> "rows", v |-> <<r.data>> \o rest.v]

\* get_rows(v_rid): a 2-D array, one byte row per selected row id
get_rows(obj, db, v_rid) ==
    IF obj.ncols < 0 THEN Raise("ValueError")
    ELSE LET rs == get_rows_from(obj, db, v_rid, 1)
         IN  IF rs.t = "exc" THEN rs
             ELSE [t |-> "ndarray2", rows |-> rs.v,
                   dtype |-> IF obj.dtype = "None" THEN "float64" ELSE obj.dtype]

\* (mutant) a set_row that raises the persisted row count to cover the row
set_row_db_grow(kind, db, rid, arr) ==
    LET d1 == StorageSet(kind, db, pack(rid), PyStr(arr.data)).db
    IN  StorageSet(kind, d1, S_nrows, PyStr(pack(rid + 1))).db

\* the engine's contents after set_row(rid, arr): arr.data under the row key
set_row_db(kind, db, rid, arr) ==
    StorageSet(kind, db, pack(rid), PyStr(arr.data)).db

set_row(rid, arr) ==
    /\ UNCHANGED <<wr, rd, slot>>
    /\ dba.state = "open"
    /\ store' = [store EXCEPT ![dba.kind] = set_row_db(dba.kind, store[dba.kind], rid, arr)]
    /\ last' = [op |-> "set_row", rid |-> rid, arr |-> arr, out |-> "ok"]
    /\ UNCHANGED <<exists, files, DB_MAP, dba, declared, attrlog, hl>>

\* tondarray(): get_rows(range(self.nrows))
tondarray(obj, db) ==
    get_rows(obj, db, [i \in 1..(IF obj.nrows > 0 THEN obj.nrows ELSE 0) |-> i - 1])

\* ------------------------------------------------------------- selections
\* a selection key is an int, a slice (start, stop, step: int or None), a
\* list of ints, a tuple of such keys, or something else (here a float)
PySlice(a, b, c) == [t |-> "slice", start |-> a, stop |-> b, step |-> c]
PyList(l) == [t |-> "list", v |-> l]
PyTuple(l) == [t |-> "tuple", v |-> l]

FullSlice == PySlice(PyNone, PyNone, PyNone)

\* (mutant) a range that ignores the step
RECURSIVE range_nostep(_, _, _)
range_nostep(start, stop, step) ==
    IF start < stop THEN <<start>> \o range_nostep(start + 1, stop, step) ELSE <<>>

\* Python 2 range(start, stop, step) for step # 0
RECURSIVE range(_, _, _)
range(start, stop, step) ==
    IF (step > 0 /\ start < stop) \/ (step < 0 /\ start > stop)
    THEN <<start>> \o range(start + step, stop, step)
    ELSE <<>>

_parse_key_core(key, stop) ==
    CASE key.t = "int" -> PyList(<<key.v>>)
      [] key.t = "slice" ->
            LET a == IF key.start.t = "none" THEN 0 ELSE key.start.v
                b == IF key.stop.t = "none" THEN stop ELSE key.stop.v
                c == IF key.step.t = "none" THEN 1 ELSE key.step.v
            IN  IF c = 0 THEN Raise("ValueError") ELSE PyList(range(a, b, c))
      [] key.t = "list" -> key
      [] OTHER -> PyNone

\* (mutant) a parser that takes an empty composite for all rows and looks
\* only at the first two components of a longer one
_parse_key_for_array_lenient(key, stop_rows, stop_cols) ==
    IF key.t = "tuple"
    THEN CASE Len(key.v) = 0 -> <<PyList(range(0, stop_rows, 1)), PyNone>>
           [] Len(key.v) = 1 -> <<_parse_key_core(key.v[1], stop_rows), PyNone>>
           [] OTHER -> <<_parse_key_core(key.v[1], stop_rows),
                         _parse_key_core(key.v[2], stop_cols)>>
    ELSE <<_parse_key_core(key, stop_rows), PyNone>>

\* returns <<v_rid, v_cid>>
_parse_key_for_array(key, stop_rows, stop_cols) ==
    IF key.t = "tuple"
    THEN CASE Len(key.v) = 0 -> <<PyNone, PyNone>>
           [] Len(key.v) = 1 -> <<_parse_key_core(key.v[1], stop_rows), PyNone>>
           [] Len(key.v) = 2 -> <<_parse_key_core(key.v[1], stop_rows),
                                  _parse_key_core(key.v[2], stop_cols)>>
           [] OTHER -> <<PyNone, PyNone>>
    ELSE <<_parse_key_core(key, stop_rows), PyNone>>

\* one row of rows[:, v_cid]: element c of a row is its bytes c*w+1 .. (c+1)*w,
\* a negative index counts from the end
RECURSIVE take_cols(_, _, _, _, _)
take_cols(row, w, ncols, v_cid, i) ==
    IF i > Len(v_cid) THEN <<>>
    ELSE LET c == IF v_cid[i] < 0 THEN v_cid[i] + ncols ELSE v_cid[i]
         IN  SubSeq(row, c * w + 1, (c + 1) * w) \o take_cols(row, w, ncols, v_cid, i + 1)

\* rows[:, v_cid]
index_cols(arr, ncols, v_cid) ==
    IF \E i \in 1..Len(v_cid) : v_cid[i] >= ncols \/ v_cid[i] < -ncols
    THEN Raise("IndexError")
    ELSE [arr EXCEPT !.rows =
            [r \in 1..Len(arr.rows) |->
                take_cols(arr.rows[r], itemsize(arr.dtype), ncols, v_cid, 1)]]

\* __getitem__(key) for a key that is not a str
getitem(obj, db, key) ==
    LET p == _parse_key_for_array(key, obj.nrows, obj.ncols)
        v_rid == p[1]
        v_cid == p[2]
    IN  IF v_rid.t = "exc" THEN v_rid
        ELSE IF v_cid.t = "exc" THEN v_cid
        ELSE IF v_rid.t = "none" THEN PyNone
        ELSE LET rows == get_rows(obj, db, v_rid.v)
             IN  IF rows.t = "exc" \/ v_cid.t = "none" THEN rows
                 ELSE index_cols(rows, obj.ncols, v_cid.v)

\* -------------------------------------------------------- selection writes
\* the value of an element: little-endian two's complement over w bytes
elem_decode(bytes) ==
    LET u == UVal(bytes, 1)
    IN  IF bytes[Len(bytes)] >= 128 THEN u - 256 ^ Len(bytes) ELSE u
elem_encode(v, w) == [i \in 1..w |-> Byte(v, i)]

\* element c (from 0) of a byte row of w-byte elements
elem_at(row, w, c) == SubSeq(row, c * w + 1, (c + 1) * w)

\* val.reshape(n, -1): n rows of equal length, or ValueError
reshape(val, n) ==
    LET w == itemsize(val.dtype)
        size == Len(val.data) \div w
    IN  IF n = 0 \/ size % n # 0 THEN Raise("ValueError")
        ELSE LET m == size \div n
             IN  [t |-> "ndarray2", dtype |-> val.dtype,
                  rows |-> [r \in 1..n |-> SubSeq(val.data, (r - 1) * m * w + 1, r * m * w)]]

\* one row of `rows[:, v_cid] = val`: the elements of vrow, cast to the
\* row's element type, go to the columns v_cid in turn (a 1-column val is
\* broadcast); a column listed twice keeps the last value assigned
RECURSIVE assign_row(_, _, _, _, _, _, _)
assign_row(row, w, ncols, v_cid, vrow, vw, j) ==
    IF j > Len(v_cid) THEN row
    ELSE LET c == IF v_cid[j] < 0 THEN v_cid[j] + ncols ELSE v_cid[j]
             src == IF Len(vrow) = vw THEN 0 ELSE j - 1
             e == elem_encode(elem_decode(elem_at(vrow, vw, src)), w)
             row1 == SubSeq(row, 1, c * w) \o e \o SubSeq(row, (c + 1) * w + 1, Len(row))
         IN  assign_row(row1, w, ncols, v_cid, vrow, vw, j + 1)

\* (mutant) an assignment that replaces every column of the rows
assign_cols_whole(rows, ncols, v_cid, val) ==
    [rows EXCEPT !.rows =
        [r \in 1..Len(rows.rows) |->
            assign_row(rows.rows[r], itemsize(rows.dtype), ncols, [c \in 1..ncols |-> c - 1],
                       SubSeq(val.rows[r], 1, itemsize(val.dtype)), itemsize(val.dtype), 1)]]

\* rows[:, v_cid] = val
assign_cols(rows, ncols, v_cid, val) ==
    LET w == itemsize(rows.dtype)
        vw == itemsize(val.dtype)
        m == IF Len(val.rows) = 0 THEN 0 ELSE Len(val.rows[1]) \div vw
    IN  IF \E i \in 1..Len(v_cid) : v_cid[i] >= ncols \/ v_cid[i] < -ncols
        THEN Raise("IndexError")
        ELSE IF m # Len(v_cid) /\ m # 1 THEN Raise("ValueError")
        ELSE [rows EXCEPT !.rows =
                [r \in 1..Len(rows.rows) |->
                    assign_row(rows.rows[r], w, ncols, v_cid, val.rows[r], vw, 1)]]

\* __setitem__(key, val) for a key that is not a str, up to the call of
\* set_rows: what is logged or raised, or the row ids and rows to write
setitem_prep(obj, db, key, val) ==
    IF val.t # "ndarray" THEN [out |-> "error: Invalid value"]
    ELSE LET p == _parse_key_for_array(key, obj.nrows, obj.ncols)
             v_rid == p[1]
             v_cid == p[2]
         IN  IF v_rid.t = "exc" THEN [out |-> v_rid.v]
             ELSE IF v_cid.t = "exc" THEN [out |-> v_cid.v]
             ELSE IF v_rid.t = "none" THEN [out |-> "error: Invalid key"]
             ELSE LET val2 == reshape(val, Len(v_rid.v))
                  IN  IF val2.t = "exc" THEN [out |-> val2.v]
                      ELSE IF v_cid.t = "none"
                      THEN [out |-> "ok", v_rid |-> v_rid.v, rows |-> val2]
                      ELSE LET got == get_rows(obj, db, v_rid.v)
                               rows == IF got.t = "exc" THEN got
                                       ELSE assign_cols(got, obj.ncols, v_cid.v, val2)
                           IN  IF rows.t = "exc" THEN [out |-> rows.v]
                               ELSE [out |-> "ok", v_rid |-> v_rid.v, rows |-> rows]

Idle == [pc |-> "idle"]

\* __setitem__(key, val) enters set_rows with the row ids and rows, or ends
\* before it with what it logged or raised
setitem(key, val) ==
    /\ dba.state = "open"
    /\ wr = Idle
    /\ LET prep == setitem_prep(dba, store[dba.kind], key, val)
           rec == [op |-> "setitem", key |-> key, val |-> val, db0 |-> store[dba.kind]]
       IN  IF prep.out = "ok"
           THEN /\ wr' = [pc |-> "set_rows", i |-> 1]
                /\ last' = rec @@ [out |-> "running", v_rid |-> prep.v_rid,
                                   arr |-> prep.rows]
           ELSE /\ wr' = Idle
                /\ last' = rec @@ [out |-> prep.out]
    /\ UNCHANGED <<exists, files, store, DB_MAP, dba, declared, attrlog, hl, rd, slot>>

\* (mutant) a put that stores only the first byte of the value
put_torn(kind, db, key, val, fault) ==
    IF fault THEN [db |-> db, exc |-> "EngineError"]
    ELSE StorageSet(kind, db, key, PyStr(SubSeq(val.v, 1, 1)))

\* storage.set(key, val) on an engine that may fail (disk or map full): one
\* put, which either stores the whole value or raises and stores nothing
put(kind, db, key, val, fault) ==
    IF fault THEN [db |-> db, exc |-> "EngineError"]
    ELSE StorageSet(kind, db, key, val)

\* (mutant) a set_rows loop that catches the error of a row and goes on
set_rows_next_goon(i, n, exc) ==
    IF i < n THEN [pc |-> "set_rows", i |-> i + 1, out |-> "running"]
    ELSE [pc |-> "idle", i |-> i, out |-> "ok"]

\* the loop of set_rows after iteration i of n: an exception leaves it
set_rows_next(i, n, exc) ==
    IF exc # "none" THEN [pc |-> "idle", i |-> i, out |-> exc]
    ELSE IF i < n THEN [pc |-> "set_rows", i |-> i + 1, out |-> "running"]
    ELSE [pc |-> "idle", i |-> i, out |-> "ok"]

\* one iteration of set_rows: self.set_row(v_rid[i], arr[i, :])
set_rows_iter ==
    /\ wr.pc = "set_rows"
    /\ \E fault \in BOOLEAN :
         LET i == wr.i
             s == put(dba.kind, store[dba.kind], pack(last.v_rid[i]),
                      PyStr(last.arr.rows[i]), fault)
             nx == set_rows_next(i, Len(last.v_rid), s.exc)
         IN  /\ store' = [store EXCEPT ![dba.kind] = s.db]
             /\ wr' = IF nx.pc = "idle" THEN Idle ELSE [pc |-> nx.pc, i |-> nx.i]
             /\ last' = IF nx.out = "running" THEN last
                        ELSE [last EXCEPT !.out = nx.out] @@ [k |-> IF s.exc = "none" THEN i + 1 ELSE i]
    /\ UNCHANGED <<exists, files, DB_MAP, dba, declared, attrlog, hl, rd, slot>>

\* ------------------------------------------------------------ storage get
\* (mutant) a get that lets BadRSlotError out
lmdb_get_noretry(bad, fault) ==
    IF bad THEN "BadRSlotError" ELSE IF fault THEN "lmdb.Error" ELSE "return"

\* one pass through the body of `while loop:` in StorageLMDB.get: begin()
\* on a stale reader slot raises BadRSlotError, which is caught and logged,
\* and the loop goes round again; any other lmdb.Error leaves the method;
\* otherwise txt.get's value is returned
lmdb_get(bad, fault) ==
    IF bad THEN "again" ELSE IF fault THEN "lmdb.Error" ELSE "return"

\* StorageLevelDB.get: one Get; LevelDB has no reader slots, its errors
\* (LevelDBError) are not transient
leveldb_get(fault) == IF fault THEN "LevelDBError" ELSE "return"

NoRead == [pc |-> "idle"]

\* self._storage.get(key) is called
get_call(key) ==
    /\ dba.state = "open"
    /\ wr = Idle
    /\ rd = NoRead
    /\ rd' = [pc |-> "get", key |-> key, retried |-> FALSE]
    /\ last' = [op |-> "get", key |-> key, out |-> [t |-> "running"]]
    /\ UNCHANGED <<exists, files, store, DB_MAP, dba, declared, attrlog, hl, wr, slot>>

\* the call proceeds: one Get on LevelDB, one pass of the loop on LMDB; the
\* engine may fail with an error of its own (fault)
get_try ==
    /\ rd.pc = "get"
    /\ \E fault \in BOOLEAN :
         LET step == IF dba.kind = "lmdb" THEN lmdb_get(slot = "bad", fault)
                     ELSE leveldb_get(fault)
         IN  IF step = "again"
             THEN /\ rd' = [rd EXCEPT !.retried = TRUE]
                  /\ last' = last
             ELSE /\ rd' = NoRead
                  /\ last' = [op |-> "get", key |-> rd.key, retried |-> rd.retried,
                              out |-> IF step = "return"
                                      THEN StorageGet(dba.kind, store[dba.kind], rd.key)
                                      ELSE Raise(step)]
    /\ UNCHANGED <<exists, files, store, DB_MAP, dba, declared, attrlog, hl, wr, slot>>

\* another thread's writes make the reader slot stale; it recovers
SlotGoesBad ==
    /\ slot = "ok"
    /\ slot' = "bad"
    /\ UNCHANGED <<exists, files, store, DB_MAP, dba, last, declared, attrlog, hl, wr, rd>>

SlotRecovers ==
    /\ slot = "bad"
    /\ slot' = "ok"
    /\ UNCHANGED <<exists, files, store, DB_MAP, dba, last, declared, attrlog, hl, wr, rd>>

\* -------------------------------------------------------------- attributes
\* (mutant) set_db_attr that stores a float as if it were an int
set_db_attr_coerce(kind, db, key, val) ==
    IF val.t \in {"int", "float"}
    THEN [db |-> StorageSet(kind, db, key, PyStr(TSTR_INT \o pack(0))).db, out |-> "ok"]
    ELSE [db |-> db, out |-> "TypeError"]

\* (mutant) set_db_attr that stores no companion element type for a buffer
set_db_attr_nocompanion(kind, db, key, val) ==
    CASE val.t = "ndarray" ->
            [db |-> StorageSet(kind, db, key, PyStr(TSTR_NDARRAY \o val.data)).db, out |-> "ok"]
      [] val.t = "int" ->
            [db |-> StorageSet(kind, db, key, PyStr(TSTR_INT \o pack(val.v))).db, out |-> "ok"]
      [] val.t = "str" ->
            [db |-> StorageSet(kind, db, key, PyStr(TSTR_STR \o val.v)).db, out |-> "ok"]
      [] OTHER -> [db |-> db, out |-> "TypeError"]

\* (mutant) set_db_attr that names int8 in the companion of every buffer
set_db_attr_int8companion(kind, db, key, val) ==
    CASE val.t = "ndarray" ->
            LET d1 == StorageSet(kind, db, key \o S__dtype, PyStr(TSTR_STR \o S_int8)).db
            IN  [db |-> StorageSet(kind, d1, key, PyStr(TSTR_NDARRAY \o val.data)).db,
                 out |-> "ok"]
      [] val.t = "int" ->
            [db |-> StorageSet(kind, db, key, PyStr(TSTR_INT \o pack(val.v))).db, out |-> "ok"]
      [] val.t = "str" ->
            [db |-> StorageSet(kind, db, key, PyStr(TSTR_STR \o val.v)).db, out |-> "ok"]
      [] OTHER -> [db |-> db, out |-> "TypeError"]

\* set_db_attr(key, val): the engine's contents afterwards and the outcome
RECURSIVE set_db_attr_core(_, _, _, _)
set_db_attr_core(kind, db, key, val) ==
    CASE val.t = "ndarray" ->
            LET dtype_str == _get_dtype_name(PyDtype(val.dtype))
                d1 == set_db_attr_core(kind, db, key \o S__dtype, dtype_str)
            IN  [db |-> StorageSet(kind, d1.db, key, PyStr(TSTR_NDARRAY \o val.data)).db,
                 out |-> "ok"]
      [] val.t = "int" ->
            [db |-> StorageSet(kind, db, key, PyStr(TSTR_INT \o pack(val.v))).db, out |-> "ok"]
      [] val.t = "str" ->
            [db |-> StorageSet(kind, db, key, PyStr(TSTR_STR \o val.v)).db, out |-> "ok"]
      [] OTHER -> [db |-> db, out |-> "TypeError"]

\* np.fromstring(bytes, dtype): a 1-D array over the bytes
np_fromstring(bytes, dtype) ==
    LET dt == IF dtype.t = "none" THEN "float64" ELSE dtype.v
    IN  IF itemsize(dt) = 0 \/ Len(bytes) % itemsize(dt) # 0 THEN Raise("ValueError")
        ELSE PyArr(dt, bytes)

Prefix(b, n) == SubSeq(b, 1, IF Len(b) < n THEN Len(b) ELSE n)
Suffix(b, n) == SubSeq(b, n + 1, Len(b))

\* get_db_attr(key): the decoded value, or the exception raised
RECURSIVE get_db_attr(_, _, _)
get_db_attr(kind, db, key) ==
    LET rawval == StorageGet(kind, db, key)
    IN  IF rawval.t = "exc" THEN rawval
        ELSE IF rawval.t = "none" THEN Raise("TypeError")
        ELSE IF Prefix(rawval.v, Len(TSTR_NDARRAY)) = TSTR_NDARRAY
        THEN LET name == get_db_attr(kind, db, key \o S__dtype)
                 attr_dtype == IF name.t = "exc" THEN name ELSE _gen_dtype(name)
             IN  IF attr_dtype.t = "exc" THEN attr_dtype
                 ELSE np_fromstring(Suffix(rawval.v, Len(TSTR_NDARRAY)), attr_dtype)
        ELSE IF Prefix(rawval.v, Len(TSTR_INT)) = TSTR_INT
        THEN unpack(PyStr(Suffix(rawval.v, Len(TSTR_INT))))
        ELSE IF Prefix(rawval.v, Len(TSTR_STR)) = TSTR_STR
        THEN PyStr(Suffix(rawval.v, Len(TSTR_STR)))
        ELSE Raise("TypeError")

set_db_attr(key, val) ==
    /\ UNCHANGED <<wr, rd, slot>>
    /\ dba.state = "open"
    /\ LET r == set_db_attr_core(dba.kind, store[dba.kind], key, val)
       IN  /\ store' = [store EXCEPT ![dba.kind] = r.db]
           /\ last' = [op |-> "set_db_attr", key |-> key, val |-> val, out |-> r.out]
           /\ attrlog' = IF r.out = "ok"
                         THEN [k \in DOMAIN attrlog \cup {key} |->
                                  IF k = key THEN val ELSE attrlog[k]]
                         ELSE attrlog
    /\ UNCHANGED <<exists, files, DB_MAP, dba, declared, hl>>

\* ----------------------------------------------------------------- inputs
Shapes == (0..MaxRows) \X (1..MaxCols)

\* None, the numpy scalar types, explicit descriptors and name strings
DtypeReps == {PyNone}
             \cup {PyType(n) : n \in {"int8", "int16"}}
             \cup {PyDtype(n) : n \in {"int8", "int16"}}
             \cup {PyStr(NameText(n)) : n \in {"int8", "int16"}}

Rids == 0..MaxRid

\* the rows specification works with one or two columns and with row counts
\* that cover all the row ids but the last, or all of them
RowCols == {1, 2}
RowShapes == {MaxRid, MaxRid + 1} \X RowCols

\* 1-D arrays of one or two elements of int8 or int16; byte i of the data is
\* b + i for a base b, so that no two positions hold the same byte
ArrayOf(t, n, b) == PyArr(t, [i \in 1..(n * itemsize(t)) |-> b + i])
InputArrays == {ArrayOf(t, n, b) : t \in {"int8", "int16"}, n \in RowCols, b \in {10, 20}}

\* attribute names "a", "a_dtype" and "b"
N_a == <<97>>
N_b == <<98>>
AttrNames == {N_a, N_a \o S__dtype, N_b}

\* attribute values: two buffers with the same bytes and different element
\* types, an integer, a text, and a float (not a supported kind)
AttrValues == {ArrayOf("int8", 2, 10), ArrayOf("int16", 1, 10),
               PyInt(-2), PyStr(S_int16), PyFloat}

\* selections with a component that is no index, range or list (a float):
\* bare, as the row component and as the column component of a composite;
\* and a 1-element composite that writes row 0
UnparseableKeys ==
    {PyFloat, PyTuple(<<PyFloat, PyInt(0)>>), PyTuple(<<PyInt(0), PyFloat>>)}
BadKeys == UnparseableKeys \cup {PyTuple(<<PyInt(0)>>)}
BadVals == {ArrayOf("int8", 2, 10), ArrayOf("int8", 2, 20)}

\* rows written at and beyond the row count: one and two int8 elements
GrowRows == {ArrayOf("int8", 1, 10), ArrayOf("int8", 2, 20)}

\* the keys read with storage get: a metadata key and the keys of two rows
GetKeys == {S_nrows, pack(0), pack(1)}

\* names a caller may pick that are also keys of the store itself: a
\* metadata key, the key of row 0, and "b" which is neither
KeyNames == {S_nrows, pack(0), N_b}
KeyValues == {PyInt(3), ArrayOf("int8", 2, 10)}
KeyRows == {ArrayOf("int8", 1, 20)}

\* selection writes on an array of two int8 columns: through an index list
\* (also with a row twice), through composites of none, one, two and three
\* components; the values are int8 arrays of 1, 2 and 4 elements, an int16
\* array of 2 elements, and an integer (not an array)
SelShapes == {<<MaxRid + 1, 2>>}
SelDtypes == {PyDtype("int8")}
SelKeys ==
    {PyList(<<0, 1>>), PyList(<<1, 1>>),
     PyTuple(<<>>), PyTuple(<<PyInt(1)>>),
     PyTuple(<<PyList(<<0, 1>>), PyInt(1)>>), PyTuple(<<PyInt(1), PyInt(-1)>>),
     PyTuple(<<PyInt(0), PyInt(0), PyInt(0)>>)}
SelVals ==
    {ArrayOf("int8", 1, 30), ArrayOf("int8", 2, 10), ArrayOf("int8", 4, 20),
     ArrayOf("int16", 2, 40), PyInt(3)}

\* --------------------------------------------------------------- behaviour
Init ==
    /\ exists \in BOOLEAN      \* the path is new, or an existing foreign directory
    /\ files = {}
    /\ store = [k \in KINDS |-> EmptyDB]
    /\ DB_MAP = {}
    /\ dba = ClosedObj
    /\ last = [op |-> "none", out |-> "ok"]
    /\ declared = NoDecl
    /\ attrlog = EmptyDB
    /\ hl = [i \in Instances |-> NoHandle]
    /\ wr = Idle
    /\ rd = NoRead
    /\ slot = "ok"

Next ==
    \/ \E k \in KINDS : Open(k)
    \/ \E k \in KINDS : OpenInterrupted(k)
    \/ Close
    \/ \E s \in Shapes : set_shape(s)
    \/ \E d \in DtypeReps : set_dtype(d)

Spec == Init /\ [][Next]_vars

\* Row traffic on a store: rows are written and read under the shapes and
\* element types set with explicit descriptors.
NextRows ==
    \/ \E k \in KINDS : Open(k)
    \/ \E s \in RowShapes : set_shape(s)
    \/ \E d \in {PyDtype("int8"), PyDtype("int16")} : set_dtype(d)
    \/ \E rid \in Rids, arr \in InputArrays : set_row(rid, arr)

SpecRows == Init /\ [][NextRows]_vars

\* Attribute traffic on a store, across close and reopen.
NextAttr ==
    \/ \E k \in KINDS : Open(k)
    \/ Close
    \/ \E key \in AttrNames, val \in AttrValues : set_db_attr(key, val)

SpecAttr == Init /\ [][NextAttr]_vars

\* Attributes set under names the store uses itself, next to shape and rows.
NextKeys ==
    \/ \E k \in KINDS : Open(k)
    \/ \E s \in RowShapes : set_shape(s)
    \/ \E arr \in KeyRows : set_row(0, arr)
    \/ \E key \in KeyNames, val \in KeyValues : set_db_attr(key, val)

SpecKeys == Init /\ [][NextKeys]_vars

\* Selection writes on an array with shape and element type set.  The
\* caller issues one call at a time: nothing else is called while a
\* __setitem__ is inside set_rows.
NextSel ==
    \/ \E k \in KINDS : Open(k)
    \/ wr = Idle /\ \E s \in SelShapes : set_shape(s)
    \/ wr = Idle /\ \E d \in SelDtypes : set_dtype(d)
    \/ dba.dtype # "None" /\ \E key \in SelKeys, val \in SelVals : setitem(key, val)
    \/ set_rows_iter

SpecSel == Init /\ [][NextSel]_vars

\* Reads through the storage adapter while the reader slot comes and goes.
\* The thread inside get keeps running: a pass of the loop that can be taken
\* is taken.
NextGet ==
    \/ \E k \in KINDS : Open(k)
    \/ rd = NoRead /\ \E s \in RowShapes : set_shape(s)
    \/ rd = NoRead /\ \E arr \in KeyRows : set_row(0, arr)
    \/ \E key \in GetKeys : get_call(key)
    \/ get_try
    \/ SlotGoesBad
    \/ SlotRecovers

SpecGet == Init /\ [][NextGet]_vars /\ WF_vars(get_try)

\* Single rows written below, at and beyond the declared row count.
NextGrow ==
    \/ \E k \in KINDS : Open(k)
    \/ \E s \in RowShapes : set_shape(s)
    \/ set_dtype(PyDtype("int8"))
    \/ \E rid \in Rids, arr \in GrowRows : set_row(rid, arr)

SpecGrow == Init /\ [][NextGrow]_vars

\* Reads and writes with selections that have an unparseable component.
NextBad ==
    \/ \E k \in KINDS : Open(k)
    \/ wr = Idle /\ \E s \in SelShapes : set_shape(s)
    \/ wr = Idle /\ \E d \in SelDtypes : set_dtype(d)
    \/ dba.dtype # "None" /\ \E key \in BadKeys, val \in BadVals : setitem(key, val)
    \/ set_rows_iter

SpecBad == Init /\ [][NextBad]_vars

\* Two array objects of one process on the same path.
NextHandles ==
    \/ \E k \in KINDS : Open(k)
    \/ Close
    \/ \E k \in KINDS : OpenPeer(k)
    \/ ClosePeer
    \/ \E s \in Shapes : set_shape(s)

SpecHandles == Init /\ [][NextHandles]_vars

\* ------------------------------------------------------------------ claims
MetaKeys == {S_nrows, S_ncols, S_dtype}

\* the text set_dtype is to persist for an element type
CanonicalText(t) == IF t = "None" THEN S_None ELSE NameText(t)

Reopened == last.op = "open" /\ last.existed

\* C2: after set_shape((r, c)) and set_dtype(t), closing the store and
\* reopening the same path succeeds and yields nrows = r, ncols = c and
\* dtype = t, for the values of the last successful calls and whichever
\* backend kind is requested.
C2_ShapeDtypePersist ==
    (Reopened /\ declared.shape # <<>> /\ declared.dtype # "unset")
        => /\ last.out = "ok"
           /\ dba.state = "open"
           /\ <<dba.nrows, dba.ncols>> = declared.shape
           /\ dba.dtype = declared.dtype

C2_Witness ==
    /\ Reopened /\ last.out = "ok"
    /\ dba.kind = "leveldb"
    /\ declared.shape = <<2, 1>> /\ declared.dtype = "int16"
    /\ dba.nrows = 2 /\ dba.ncols = 1 /\ dba.dtype = "int16"
    /\ ~is_valid("lmdb", files)

C7_UnknownBackendClean ==
    (Reopened /\ last.valid = {})
        => /\ last.out # "ok"
           /\ dba.state = "closed"
           /\ files = last.files0
           /\ store = last.store0
           /\ DB_MAP = last.dbmap0

\* C8: set_dtype with any accepted representation of an element type
\* (descriptor, name string, type value, or None) succeeds, persists the
\* canonical name ("None" for None) under "dtype" and sets the in-memory
\* dtype to that element type (empty for None).
C8_SetDtypeNormalizes ==
    last.op = "set_dtype"
        => /\ last.out = "ok"
           /\ S_dtype \in DOMAIN store[dba.kind]
           /\ store[dba.kind][S_dtype] = CanonicalText(DenotedType(last.dtype))
           /\ dba.dtype = DenotedType(last.dtype)

\* C10: opening an existing path whose engine lacks one of "nrows", "ncols",
\* "dtype" fails; the open never completes with a defaulted shape or dtype.
C10_MissingMetadataFails ==
    (Reopened /\ ~(MetaKeys \subseteq DOMAIN last.store0[last.used]))
        => last.out # "ok" /\ dba.state = "closed"

\* ----------------------------------------------------------- claims on rows
DB == store[dba.kind]

\* shape and element type have been established
Established == dba.state = "open" /\ dba.ncols >= 1 /\ dba.dtype \in {"int8", "int16"}

\* arr is a row of the store: ncols elements of the store's element type
IsRowOf(obj, arr) ==
    arr.dtype = obj.dtype /\ Len(arr.data) = obj.ncols * itemsize(obj.dtype)

RowWritten(db, rid) == pack(rid) \in DOMAIN db

\* C1: on a store with established shape and element type, a set_row(r, x)
\* with a row x of ncols elements of the element type makes get_row(r) return
\* exactly the bytes of x, and a set_row on another row id leaves what
\* get_row returns for every written row as it was.
C1_RowRoundTrip ==
    [][(last'.op = "set_row" /\ Established')
        => /\ IsRowOf(dba', last'.arr)
              => get_row(dba', DB', last'.rid) = PyArr(dba'.dtype, last'.arr.data)
           /\ \A r \in Rids \ {last'.rid} :
                RowWritten(DB, r) => get_row(dba', DB', r) = get_row(dba, DB, r)]_vars

C1_Witness ==
    /\ Established /\ last.op = "set_row" /\ last.rid = 1
    /\ IsRowOf(dba, last.arr)
    /\ RowWritten(DB, 0)
    /\ get_row(dba, DB, 0).t = "ndarray"
    /\ get_row(dba, DB, 1) = PyArr(dba.dtype, last.arr.data)
    /\ get_row(dba, DB, 0).data # last.arr.data

\* selection keys over the rows: an index, a stepped range, an index list
IntOrNone(S) == {PyNone} \cup {PyInt(i) : i \in S}
ListsOver(S) == {<<>>} \cup {<<a>> : a \in S} \cup {<<a, b>> : a \in S, b \in S}
RowKeys ==
    {PyInt(i) : i \in Rids}
    \cup {PySlice(a, b, c) : a \in IntOrNone(0..1), b \in IntOrNone(1..(MaxRid + 1)),
                             c \in IntOrNone(1..2)}
    \cup {PyList(l) : l \in ListsOver(Rids)}

\* the row ids a selection denotes: start, start+step, ... below stop, with
\* start 0, step 1 and stop nrows when not given
ResolvedIds(key, nrows) ==
    CASE key.t = "int" -> <<key.v>>
      [] key.t = "list" -> key.v
      [] key.t = "slice" ->
            LET a == IF key.start.t = "none" THEN 0 ELSE key.start.v
                b == IF key.stop.t = "none" THEN nrows ELSE key.stop.v
                c == IF key.step.t = "none" THEN 1 ELSE key.step.v
                cnt == IF b > a THEN (b - a + c - 1) \div c ELSE 0
            IN  [i \in 1..cnt |-> a + (i - 1) * c]

FullyPopulated ==
    \A r \in 0..(dba.nrows - 1) :
        RowWritten(DB, r) /\ get_row(dba, DB, r).t = "ndarray"

\* C3: on a fully populated array, reading with a row selection (index,
\* stepped range with defaults, index list), bare or as a 1-element
\* composite or with all columns selected, returns the get_row results of
\* the resolved row ids, one per row, in selection order, all columns each.
C3_SelectionEquivalence ==
    (Established /\ FullyPopulated)
        => \A key \in RowKeys :
             LET ids == ResolvedIds(key, dba.nrows)
                 expect == [t |-> "ndarray2",
                            rows |-> [i \in 1..Len(ids) |-> get_row(dba, DB, ids[i]).data],
                            dtype |-> dba.dtype]
             IN  (\A i \in 1..Len(ids) : ids[i] \in 0..(dba.nrows - 1))
                    => /\ getitem(dba, DB, key) = expect
                       /\ getitem(dba, DB, PyTuple(<<key>>)) = expect
                       /\ getitem(dba, DB, PyTuple(<<key, FullSlice>>)) = expect
                       /\ \A i \in 1..Len(ids) :
                            Len(expect.rows[i]) = dba.ncols * itemsize(dba.dtype)

C3_Witness ==
    /\ Established /\ FullyPopulated /\ dba.nrows = 2 /\ dba.ncols = 2
    /\ get_row(dba, DB, 0).data # get_row(dba, DB, 1).data
    /\ getitem(dba, DB, PyList(<<1, 0>>)).rows
          = <<get_row(dba, DB, 1).data, get_row(dba, DB, 0).data>>
    /\ getitem(dba, DB, PySlice(PyInt(1), PyNone, PyNone)).rows = <<get_row(dba, DB, 1).data>>

\* C9: for every backend kind a get on a key that was never put fails with
\* KeyError, so get_row of a row id never written fails with KeyError
\* instead of returning ncols elements.
C9_AbsentKeyFails ==
    Established
        => \A rid \in Rids :
             ~RowWritten(DB, rid)
                => /\ StorageGet(dba.kind, DB, pack(rid)) = Raise("KeyError")
                   /\ get_row(dba, DB, rid) = Raise("KeyError")

\* ----------------------------------------------------- claims on attributes
\* the store was closed and reopened since the attributes were set
AfterReopen == dba.state = "open" /\ Reopened

Companions(n, m) == n = m \o S__dtype \/ m = n \o S__dtype

C5_UnsupportedRejected ==
    [][(last'.op = "set_db_attr" /\ last'.val.t \notin {"ndarray", "int", "str"})
        => /\ last'.out = "TypeError"
           /\ store' = store
           /\ dba' = dba]_vars

C5_Witness ==
    /\ last.op = "set_db_attr" /\ last.val = PyFloat /\ last.out = "TypeError"
    /\ last.key = N_b
    /\ N_b \notin DOMAIN DB /\ (N_b \o S__dtype) \notin DOMAIN DB
    /\ N_a \in DOMAIN DB

\* ------------------------------------------------------- claims on handles
\* the engine handles alive in the process
LiveHandles == {hl[i] : i \in {j \in Instances : hl[j] # NoHandle}}

\* C11: for every backend kind all instances of the process on the path use
\* one engine handle, and opening the path while it is already open for the
\* same kind reuses that handle, creates no second one and does not fail.
C11_HandleSharing ==
    /\ \A i, j \in Instances :
         (hl[i] # NoHandle /\ hl[j] # NoHandle /\ hl[i].kind = hl[j].kind)
            => hl[i] = hl[j]
    /\ (last.op = "open_peer" /\ last.hl0.dba.kind = last.used)
         => /\ last.out = "ok"
            /\ hl.peer = last.hl0.dba
            /\ LiveHandles = {last.hl0.dba}

\* ----------------------------------------------------- claims on key space
ReservedKeys == MetaKeys \cup {pack(r) : r \in Rids}

\* C12: whatever names set_db_attr is called with, the reserved keys keep
\* their values ("nrows", "ncols" and "dtype" hold what set_shape and
\* set_dtype last stored), and a set_db_attr whose name is a reserved key or
\* the 8-byte encoding of a row id is rejected.
C12_KeySpaceSeparation ==
    dba.state = "open"
        => /\ declared.shape # <<>>
                => /\ DB[S_nrows] = pack(declared.shape[1])
                   /\ DB[S_ncols] = pack(declared.shape[2])
           /\ declared.dtype # "unset" => DB[S_dtype] = CanonicalText(declared.dtype)
           /\ (last.op = "set_db_attr" /\ last.key \in ReservedKeys) => last.out # "ok"

\* ---------------------------------------------------- claims on row length
\* C13: every stored row has exactly ncols * itemsize(dtype) bytes, and a
\* set_row with an array of another element count or another element type
\* does not store the row.
C13_RowLength ==
    Established
        => /\ \A r \in Rids :
                RowWritten(DB, r) => Len(DB[pack(r)]) = dba.ncols * itemsize(dba.dtype)
           /\ (last.op = "set_row" /\ ~IsRowOf(dba, last.arr)) => last.out # "ok"

\* ------------------------------------------------ claims on selection writes
\* a __setitem__ call that reached set_rows has ended, normally or by the
\* exception of a row write
WriteEnded == last.op = "setitem" /\ wr = Idle /\ last.out \in {"ok", "EngineError"}

\* the positions among the first n of the selection that name row r
PositionsOf(r, n) == {j \in 1..n : last.v_rid[j] = r}

Latest(S) == CHOOSE j \in S : \A i \in S : i <= j

\* row r of db is as in db0: absent in both, or the same bytes
SameRow(db, db0, r) ==
    /\ RowWritten(db, r) <=> RowWritten(db0, r)
    /\ RowWritten(db, r) => db[pack(r)] = db0[pack(r)]

\* C14: a selection write over rows r_1..r_n writes the rows one by one in
\* selection order; when the write of r_k fails the call ends with that
\* error, the rows written by positions 1..k-1 hold their new values (the
\* later position's value for a row selected twice) and every other row,
\* r_k..r_n included, holds what it held before the call.
C14_OrderedAbort ==
    WriteEnded
        => LET n == Len(last.v_rid)
               k == last.k
           IN  /\ k \in 1..(n + 1)
               /\ last.out = "ok" <=> k = n + 1
               /\ \A r \in Rids :
                    IF PositionsOf(r, k - 1) = {}
                    THEN SameRow(DB, last.db0, r)
                    ELSE /\ RowWritten(DB, r)
                         /\ DB[pack(r)] = last.arr.rows[Latest(PositionsOf(r, k - 1))]

C14_Witness ==
    /\ WriteEnded /\ last.out = "EngineError" /\ last.k = 2
    /\ last.v_rid = <<0, 1>>
    /\ RowWritten(last.db0, 0) /\ RowWritten(last.db0, 1)
    /\ DB[pack(0)] = last.arr.rows[1]
    /\ DB[pack(0)] # last.db0[pack(0)]
    /\ DB[pack(1)] = last.db0[pack(1)]
    /\ DB[pack(1)] # last.arr.rows[2]

\* a __setitem__ call is inside set_rows: some of its rows are written
InFlight == last.op = "setitem" /\ wr.pc = "set_rows"

\* the byte rows the call in progress is to store under row r
NewRows(r) == {last.arr.rows[j] : j \in PositionsOf(r, Len(last.v_rid))}

\* C15: what a reader sees while a multi-row write is in progress: every
\* row is either as it was before the call or holds one complete row of the
\* call, and get_row returns the array of one of the two, never a mixture;
\* rows of a prefix of the selection may be new while the others are old.
C15_NoTornRows ==
    InFlight
        => \A r \in Rids :
             /\ SameRow(DB, last.db0, r) \/ (RowWritten(DB, r) /\ DB[pack(r)] \in NewRows(r))
             /\ get_row(dba, DB, r) \in
                    {get_row(dba, last.db0, r)}
                    \cup {np_ndarray(dba.ncols, dba.dtype, PyStr(x)) : x \in NewRows(r)}

C15_Witness ==
    /\ InFlight /\ wr.i = 2
    /\ last.v_rid = <<0, 1>>
    /\ RowWritten(last.db0, 0) /\ RowWritten(last.db0, 1)
    /\ get_row(dba, DB, 0) = PyArr("int8", last.arr.rows[1])
    /\ get_row(dba, DB, 0) # get_row(dba, last.db0, 0)
    /\ get_row(dba, DB, 1) = get_row(dba, last.db0, 1)
    /\ get_row(dba, DB, 1) # PyArr("int8", last.arr.rows[2])
    /\ get_row(dba, DB, 1).t = "ndarray"

\* the column list of a 2-element composite key, indices counted from 0
ColumnsOf(key) ==
    LET v_cid == _parse_key_core(key.v[2], dba.ncols).v
    IN  [q \in 1..Len(v_cid) |-> IF v_cid[q] < 0 THEN v_cid[q] + dba.ncols ELSE v_cid[q]]

\* the rows of the selection were populated before the call
PopulatedBefore ==
    \A j \in 1..Len(last.v_rid) :
        /\ RowWritten(last.db0, last.v_rid[j])
        /\ get_row(dba, last.db0, last.v_rid[j]).t = "ndarray"

\* a column-subset write on populated rows has ended normally
ColumnWriteDone ==
    /\ WriteEnded /\ last.out = "ok"
    /\ last.key.t = "tuple" /\ Len(last.key.v) = 2
    /\ _parse_key_core(last.key.v[2], dba.ncols).t = "list"
    /\ PopulatedBefore

\* C16: after a write with a composite selection of rows R and columns C on
\* populated rows, element (r, c) for r in R and c in C holds the value given
\* for it (as an element of the array's type), the elements of the rows of R
\* at the other columns are as they were, and so is every row not in R.
C16_ColumnWriteFrame ==
    ColumnWriteDone
        => LET R == last.v_rid
               C == ColumnsOf(last.key)
               w == itemsize(dba.dtype)
               vw == itemsize(last.val.dtype)
               val == reshape(last.val, Len(R))
           IN  \A r \in Rids :
                 IF PositionsOf(r, Len(R)) = {}
                 THEN SameRow(DB, last.db0, r)
                 ELSE LET j == Latest(PositionsOf(r, Len(R)))
                          old == get_row(dba, last.db0, r).data
                          new == get_row(dba, DB, r).data
                      IN  \A c \in 0..(dba.ncols - 1) :
                            LET qs == {q \in 1..Len(C) : C[q] = c}
                                src == IF Len(val.rows[j]) = vw THEN 0 ELSE Latest(qs) - 1
                            IN  IF qs = {}
                                THEN elem_at(new, w, c) = elem_at(old, w, c)
                                ELSE elem_decode(elem_at(new, w, c))
                                        = elem_decode(elem_encode(
                                             elem_decode(elem_at(val.rows[j], vw, src)), w))

C16_Witness ==
    /\ ColumnWriteDone
    /\ last.v_rid = <<1>> /\ ColumnsOf(last.key) = <<1>>
    /\ RowWritten(DB, 0) /\ DB[pack(0)] = last.db0[pack(0)]
    /\ elem_at(DB[pack(1)], 1, 0) = elem_at(last.db0[pack(1)], 1, 0)
    /\ elem_at(DB[pack(1)], 1, 1) = elem_at(last.val.data, 1, 0)
    /\ elem_at(DB[pack(1)], 1, 1) # elem_at(last.db0[pack(1)], 1, 1)
    /\ elem_at(DB[pack(1)], 1, 0) # elem_at(DB[pack(1)], 1, 1)

\* ------------------------------------------------------- claims on retries
\* a storage get has returned or raised
GetEnded == last.op = "get" /\ last.out.t # "running"

\* what a get that ended gave its caller: never the transient error, and
\* either an error of the engine or what the engine holds under the key
GetOutcome ==
    GetEnded
        => /\ last.out # Raise("BadRSlotError")
           /\ rd = NoRead
                => last.out \in {StorageGet(dba.kind, DB, last.key),
                                 Raise("lmdb.Error"), Raise("LevelDBError")}

\* C17: a get that meets a stale reader slot goes round again and its caller
\* never sees the transient error; an engine error that is not transient
\* ends the call and is raised; and if at some point the reader slot stays
\* good, a get in progress ends.  On both engines.
C17_TransientRetry ==
    /\ []GetOutcome
    /\ (<>[](slot = "ok")) => [](rd.pc = "get" => <>(rd = NoRead))

C17_Witness ==
    /\ GetEnded /\ last.retried /\ rd = NoRead
    /\ dba.kind = "lmdb"
    /\ last.key = pack(0) /\ RowWritten(DB, 0)
    /\ last.out = PyStr(DB[pack(0)])

\* ------------------------------------------------- claims on companion keys
\* the stored value under name n carries the tag "nda"
HoldsBuffer(db, n) == n \in DOMAIN db /\ Prefix(db[n], Len(TSTR_NDARRAY)) = TSTR_NDARRAY

\* the key n + "_dtype" holds the "str"-tagged name of the element type the
\* buffer last stored under n had, and get_db_attr(n) returns that buffer
CompanionHolds(n) ==
    /\ (n \o S__dtype) \in DOMAIN DB
    /\ attrlog[n].t = "ndarray"
    /\ DB[n \o S__dtype] = TSTR_STR \o NameText(attrlog[n].dtype)
    /\ get_db_attr(dba.kind, DB, n) = attrlog[n]

\* C18 as claimed: after any sequence of set_db_attr calls, every name that
\* holds a buffer has its element type named under name + "_dtype" and
\* decodes to the buffer stored, whatever other names were stored under.
C18_CompanionType_AnyNames ==
    dba.state = "open"
        => \A n \in DOMAIN attrlog : HoldsBuffer(DB, n) => CompanionHolds(n)

\* C18 (amended): the same for every name that holds a buffer, provided no
\* set_db_attr was called with that name followed by "_dtype" or with that
\* name without its final "_dtype".
C18_CompanionType ==
    dba.state = "open"
        => \A n \in DOMAIN attrlog :
             (HoldsBuffer(DB, n) /\ \A m \in DOMAIN attrlog : ~Companions(n, m))
                => CompanionHolds(n)

C18_Witness ==
    /\ dba.state = "open"
    /\ last.op = "set_db_attr" /\ last.key = N_b /\ last.val.t = "ndarray"
    /\ DOMAIN attrlog = {N_a, N_b}
    /\ HoldsBuffer(DB, N_a) /\ attrlog[N_a].dtype = "int16"
    /\ attrlog[N_b].dtype = "int8"
    /\ DB[N_a \o S__dtype] = TSTR_STR \o S_int16
    /\ get_db_attr(dba.kind, DB, N_a) = ArrayOf("int16", 1, 10)

\* ----------------------------------------------- claims on invalid selections
\* composites of no component and of three components
InvalidComposites == {PyTuple(<<>>), PyTuple(<<PyInt(0), PyInt(0), PyInt(0)>>)}

\* C19: a read or a write with a composite selection of 0 or of more than 2
\* components is a usage error that is only logged: the read returns None
\* without reading a row, the write returns without entering set_rows, and
\* the engine's contents, the shape and the element type stay as they were.
C19_InvalidComposite ==
    dba.state = "open"
        => /\ \A key \in InvalidComposites : getitem(dba, DB, key) = PyNone
           /\ (last.op = "setitem" /\ last.key \in InvalidComposites)
                => /\ last.out \in {"error: Invalid key", "error: Invalid value"}
                   /\ wr = Idle
                   /\ DB = last.db0
                   /\ <<dba.nrows, dba.ncols>> = declared.shape
                   /\ dba.dtype = declared.dtype

C19_Witness ==
    /\ dba.state = "open" /\ dba.kind = "leveldb"
    /\ last.op = "setitem" /\ last.key = PyTuple(<<>>) /\ last.val.t = "ndarray"
    /\ last.out = "error: Invalid key"
    /\ RowWritten(DB, 1) /\ ~RowWritten(DB, 0)
    /\ getitem(dba, DB, PyInt(0)) = Raise("KeyError")
    /\ getitem(dba, DB, PyTuple(<<PyInt(0), PyInt(0), PyInt(0)>>)) = PyNone

\* --------------------------------------------------- claims on unknown tags
Tags == {TSTR_NDARRAY, TSTR_INT, TSTR_STR}

\* the value stored under key begins with none of the three tags
Untagged(db, key) == key \in DOMAIN db /\ Prefix(db[key], 3) \notin Tags

\* a name no attribute is ever stored under
N_z == <<122>>

\* C20: get_db_attr on a key whose value begins with none of "nda", "int",
\* "str" raises an error of its own, which is neither what a missing key
\* gives nor the TypeError of an unsupported attribute value; a value that
\* begins with a tag goes to the decoder of that tag.
C20_UnknownTag ==
    dba.state = "open"
        => \A key \in DOMAIN DB :
             LET r == get_db_attr(dba.kind, DB, key)
                 body == Suffix(DB[key], 3)
             IN  /\ Untagged(DB, key)
                      => /\ r.t = "exc"
                         /\ r # Raise("TypeError")
                         /\ r # get_db_attr(dba.kind, DB, N_z)
                 /\ Prefix(DB[key], 3) = TSTR_INT => r = unpack(PyStr(body))
                 /\ Prefix(DB[key], 3) = TSTR_STR => r = PyStr(body)
                 /\ Prefix(DB[key], 3) = TSTR_NDARRAY
                      => r.t = "exc" \/ (r.t = "ndarray" /\ r.data = body)

\* ---------------------------------------------------- claims on row count
\* C21: set_row(r, x), also for r at or beyond nrows, stores x under the key
\* of row r and changes nothing else: every other key of the engine, among
\* them "nrows", "ncols" and "dtype", and the object's nrows, ncols and dtype
\* are as before; tondarray() still reads the rows 0..nrows-1 only, and after
\* a write beyond nrows it returns what it returned before.
C21_NoAutoGrow ==
    [][last'.op = "set_row"
        => /\ dba' = dba
           /\ DB'[pack(last'.rid)] = last'.arr.data
           /\ DOMAIN DB' = DOMAIN DB \cup {pack(last'.rid)}
           /\ \A k \in DOMAIN DB \ {pack(last'.rid)} : DB'[k] = DB[k]
           /\ tondarray(dba', DB').t = "ndarray2"
                => /\ Len(tondarray(dba', DB').rows) = dba.nrows
                   /\ \A i \in 1..dba.nrows :
                        tondarray(dba', DB').rows[i] = get_row(dba', DB', i - 1).data
           /\ last'.rid >= dba.nrows => tondarray(dba', DB') = tondarray(dba, DB)]_vars

C21_Witness ==
    /\ Established /\ dba.nrows = 1
    /\ last.op = "set_row" /\ last.rid = 1
    /\ RowWritten(DB, 0) /\ RowWritten(DB, 1)
    /\ DB[pack(1)] = last.arr.data
    /\ DB[S_nrows] = pack(1)
    /\ tondarray(dba, DB).t = "ndarray2"
    /\ tondarray(dba, DB).rows = <<get_row(dba, DB, 0).data>>

\* -------------------------------------------- claims on unparseable selections
\* C22: a selection whose row component, or whose column component in a
\* 2-element composite, is not an index, a range or an index list is
\* rejected as an invalid key: the read returns None without reading a row,
\* the write is logged and returns without entering set_rows, and the
\* engine's contents stay as they were.
C22_UnparseableRejected ==
    Established
        => /\ \A key \in UnparseableKeys : getitem(dba, DB, key) = PyNone
           /\ (last.op = "setitem" /\ last.key \in UnparseableKeys)
                => /\ last.out = "error: Invalid key"
                   /\ wr = Idle
                   /\ DB = last.db0

====
